---- MODULE Spec2Model ----
(***************************************************************************)
(* A model of package parallel (wangkuiyi/parallel): the entry points ForN *)
(* (bounded pool fed by a producer through the unbuffered channel chin,    *)
(* errors collected through the unbuffered channel chout), For (one        *)
(* goroutine per index, completion tokens in the buffered channel sem,     *)
(* errors appended to a shared string under a mutex) and Do (one goroutine *)
(* per callable, errors stored in a slice indexed by position).            *)
(*                                                                         *)
(* One behaviour of the model is one call of one entry point.  The call's  *)
(* arguments are chosen in Init; every goroutine the call starts is a      *)
(* process of the model, and an unbuffered channel operation is a joint    *)
(* step of its sender and its receiver.                                    *)
(***************************************************************************)
EXTENDS Integers, Sequences, FiniteSets, Bags, TLC

(* ------------------------------ bounds --------------------------------- *)
MaxLow == 1
MaxHigh == 3
MaxStep == 2
MaxParallelism == 3
MaxFunctions == 3
MaxKeys == 3
MaxOuter == 2
MaxInner == 1

VARIABLES
    fn,           \* the call: "ForN", "For", "Do", "RangeMap" or "NestedFor"
    low, high, step, parallelism,   \* the integer arguments of For / ForN
    worker,       \* reflect.TypeOf(worker): the dynamic type of the worker argument
    functions,    \* Do: the dynamic types of the variadic arguments
    fails,        \* the units (For/ForN: values, Do: positions) whose invocation returns a non-nil error
    mainpc,       \* position of the calling goroutine inside the entry point
    mi,           \* the calling goroutine's loop variable
    result,       \* what the call produced
    chinClosed,   \* ForN: close(chin) has happened
    choutClosed,  \* ForN: close(chout) has happened
    wg,           \* ForN: the WaitGroup counter
    errs,         \* ForN / For: the string errs
    prod,         \* ForN: the producer goroutine
    wk,           \* ForN: the worker goroutines, by spawn index
    closer,       \* ForN: the goroutine that waits on wg and closes chout
    sem,          \* For / Do: number of tokens buffered in sem
    mutex,        \* For: the mutex is locked
    gor,          \* For / Do: the per-unit goroutines
    tmp,          \* For: the value of errs a goroutine read for its append
    errsDo,       \* Do: the slice errs
    invoked,      \* history: bag of units whose invocation has started
    returned,     \* history: bag of units whose invocation has returned
    started,      \* history: number of goroutines started by the call
    m,            \* RangeMap: the argument m
    keys,         \* RangeMap: the slice keys
    calls,        \* nested For: the calls in progress, by the path of units that leads to them
    reported,     \* history: bag of units whose error was received from chout
    chinCloses,   \* history: number of close(chin) executed
    choutCloses,  \* history: number of close(chout) executed
    writes        \* history: bag of <<slot, goroutine>> stores into the result slice

args == <<fn, low, high, step, parallelism, worker, functions, fails>>
forNVars == <<chinClosed, choutClosed, wg, prod, wk, closer>>
forVars == <<sem, mutex, gor, tmp, errsDo>>
hist == <<invoked, returned, started>>
rmVars == <<m, keys>>
ghost == <<reported, chinCloses, choutCloses, writes>>
ext == <<rmVars, calls, ghost>>
vars == <<args, mainpc, mi, result, errs, forNVars, forVars, hist, ext>>

(* --------------------------- strings ----------------------------------- *)
(* A Go string is a sequence of one-character strings.                     *)
NL == "\n"

Digit(d) ==
    CASE d = 0 -> "0" [] d = 1 -> "1" [] d = 2 -> "2" [] d = 3 -> "3"
      [] d = 4 -> "4" [] d = 5 -> "5" [] d = 6 -> "6" [] d = 7 -> "7"
      [] d = 8 -> "8" [] d = 9 -> "9"

RECURSIVE Itoa(_)
Itoa(n) ==
    IF n < 0 THEN <<"-">> \o Itoa(0 - n)
    ELSE IF n < 10 THEN <<Digit(n)>>
    ELSE Itoa(n \div 10) \o <<Digit(n % 10)>>

(* The message of the error the worker returns for unit u.                 *)
Msg(u) == <<"E">> \o Itoa(u)

(* fmt.Sprintf("%v\n", e) and e.Error() + "\n".                            *)
ErrLine(u) == Msg(u) \o <<NL>>

(* --------------------------- values ------------------------------------ *)
NoResult == [state |-> "none", nil |-> TRUE, text |-> <<>>]
Nil == [state |-> "returned", nil |-> TRUE, text |-> <<>>]
Err(t) == [state |-> "returned", nil |-> FALSE, text |-> t]
Panic(t) == [state |-> "panic", nil |-> FALSE, text |-> t]
Pass == [state |-> "pass", nil |-> TRUE, text |-> <<>>]

(* Variant of ErrOrNil: errors.New(s) is returned whatever len(s) is.      *)
ErrAlways(s) == Err(s)

(* errors.New(s) if len(s) > 0, else nil.                                  *)
ErrOrNil(s) == IF Len(s) > 0 THEN Err(s) ELSE Nil

(* The argument m of RangeMap: its reflect.Kind ("Nil" for an untyped nil) *)
(* and, for a map, its entries.                                            *)
MapArg(kind, entries) == [kind |-> kind, entries |-> entries]
NoMap == MapArg("Nil", <<>>)

(* reflect.Type of an argument.  NilType is reflect.TypeOf(nil).           *)
NilType == [kind |-> "Nil", numIn |-> 0, in0 |-> "", numOut |-> 0, out0 |-> ""]
IntType == [kind |-> "Int", numIn |-> 0, in0 |-> "", numOut |-> 0, out0 |-> ""]
FuncType(ni, p, no, r) == [kind |-> "Func", numIn |-> ni, in0 |-> p, numOut |-> no, out0 |-> r]

WorkerTypes ==
    { NilType, IntType,
      FuncType(1, "Int", 0, ""),        \* func(int)
      FuncType(1, "Int", 1, "error"),   \* func(int) error
      FuncType(0, "", 0, ""),           \* func()
      FuncType(2, "Int", 0, ""),        \* func(int, int)
      FuncType(1, "String", 0, ""),     \* func(string)
      FuncType(1, "Int", 2, "int"),     \* func(int) (int, error)
      FuncType(1, "Int", 1, "int") }    \* func(int) int

FunctionTypes ==
    { NilType, IntType,
      FuncType(0, "", 0, ""),           \* func()
      FuncType(0, "", 1, "error"),      \* func() error
      FuncType(1, "Int", 0, ""),        \* func(int)
      FuncType(0, "", 2, "int"),        \* func() (int, error)
      FuncType(0, "", 1, "int") }       \* func() int

(* The values a loop  i := l; i < h; i += s  can reach (s > 0).            *)
RangeValues(l, h, s) == { v \in l..(h - 1) : (v - l) % s = 0 }

(* --------------------------- validation -------------------------------- *)
(* Variant of ForNCheck: the check low > high is missing.                  *)
ForNCheckNoLow ==
    IF step <= 0
      THEN Err(<<"step (">> \o Itoa(step) \o <<") must be positive">>)
    ELSE IF worker.kind = "Nil"
      THEN Panic(<<"nil pointer dereference">>)
    ELSE IF worker.kind # "Func"
      THEN Err(<<"parallel.ForN worker must be a function.">>)
    ELSE IF worker.numIn # 1
      THEN Err(<<"parallel.ForN worker must have 1 parameter">>)
    ELSE IF worker.in0 # "Int"
      THEN Err(<<"parallel.ForN worker must have a int param">>)
    ELSE IF worker.numOut > 1
      THEN Err(<<"parallel.ForN worker must return nothing or error">>)
    ELSE IF worker.numOut = 1 /\ worker.out0 # "error"
      THEN Err(<<"parallel.ForN worker's return type must be error">>)
    ELSE Pass

(* The checks at the top of ForN.  t.Kind() on the nil reflect.Type that   *)
(* reflect.TypeOf(nil) returns is a nil dereference.                       *)
ForNCheck ==
    IF low > high
      THEN Err(<<"low (">> \o Itoa(low) \o <<") > high (">> \o Itoa(high) \o <<")">>)
    ELSE IF step <= 0
      THEN Err(<<"step (">> \o Itoa(step) \o <<") must be positive">>)
    ELSE IF worker.kind = "Nil"
      THEN Panic(<<"nil pointer dereference">>)
    ELSE IF worker.kind # "Func"
      THEN Err(<<"parallel.ForN worker must be a function.">>)
    ELSE IF worker.numIn # 1
      THEN Err(<<"parallel.ForN worker must have 1 parameter">>)
    ELSE IF worker.in0 # "Int"
      THEN Err(<<"parallel.ForN worker must have a int param">>)
    ELSE IF worker.numOut > 1
      THEN Err(<<"parallel.ForN worker must return nothing or error">>)
    ELSE IF worker.numOut = 1 /\ worker.out0 # "error"
      THEN Err(<<"parallel.ForN worker's return type must be error">>)
    ELSE Pass

(* The checks at the top of For.                                           *)
ForCheck ==
    IF low > high
      THEN Err(<<"low (">> \o Itoa(low) \o <<") > high (">> \o Itoa(high) \o <<")">>)
    ELSE IF step <= 0
      THEN Err(<<"step (">> \o Itoa(step) \o <<") must be positive">>)
    ELSE IF worker.kind = "Nil"
      THEN Panic(<<"nil pointer dereference">>)
    ELSE IF worker.kind # "Func"
      THEN Err(<<"parallel.For worker must be a function.">>)
    ELSE IF worker.numIn # 1
      THEN Err(<<"parallel.For worker must have 1 parameter">>)
    ELSE IF worker.in0 # "Int"
      THEN Err(<<"parallel.For worker must have a int param">>)
    ELSE IF worker.numOut > 1
      THEN Err(<<"parallel.For worker must return nothing or error">>)
    ELSE IF worker.numOut = 1 /\ worker.out0 # "error"
      THEN Err(<<"parallel.For worker's return type must be error">>)
    ELSE Pass

(* The body of Do's validation loop for the argument at position k.        *)
DoCheckOne(k) ==
    LET t == functions[k + 1] IN
    IF t.kind = "Nil"
      THEN Panic(<<"nil pointer dereference">>)
    ELSE IF t.kind # "Func"
      THEN Err(<<"The #">> \o Itoa(k + 1) \o <<" param of Do is not a function">>)
    ELSE IF t.numIn # 0
      THEN Err(<<"The #">> \o Itoa(k + 1) \o <<" param of Do is not a function with out param">>)
    ELSE IF t.numOut > 1
      THEN Err(<<"The #">> \o Itoa(k + 1) \o <<" param of Do must return nothing or an error">>)
    ELSE IF t.numOut = 1 /\ t.out0 # "error"
      THEN Err(<<"Return type is not error">>)
    ELSE Pass

(* Do's validation loop: the first argument that fails decides.            *)
DoCheck ==
    LET bad == { k \in 0..(Len(functions) - 1) : DoCheckOne(k) # Pass } IN
    IF bad = {} THEN Pass
    ELSE DoCheckOne(CHOOSE k \in bad : \A j \in bad : k <= j)

(* ----------------------------- Init ------------------------------------ *)
ReturnsError(t) == t.kind = "Func" /\ t.numOut = 1 /\ t.out0 = "error"

RECURSIVE SeqsUpTo(_, _)
SeqsUpTo(S, n) ==
    IF n = 0 THEN { <<>> }
    ELSE LET shorter == SeqsUpTo(S, n - 1) IN
         shorter \cup { Append(q, x) : q \in { r \in shorter : Len(r) = n - 1 }, x \in S }

InitRange ==
    /\ low \in 0..MaxLow
    /\ high \in 0..MaxHigh
    /\ step \in (0 - 1)..MaxStep
    /\ worker \in WorkerTypes
    /\ functions = <<>>
    /\ fails \in IF ReturnsError(worker) /\ step > 0
                   THEN SUBSET RangeValues(low, high, step)
                   ELSE { {} }

InitCommon ==
    /\ mainpc = "entry"
    /\ mi = 0
    /\ result = NoResult
    /\ chinClosed = FALSE
    /\ choutClosed = FALSE
    /\ wg = 0
    /\ errs = <<>>
    /\ prod = [pc |-> "idle", i |-> 0]
    /\ wk = <<>>
    /\ closer = "idle"
    /\ sem = 0
    /\ mutex = FALSE
    /\ gor = <<>>
    /\ tmp = <<>>
    /\ errsDo = <<>>
    /\ invoked = EmptyBag
    /\ returned = EmptyBag
    /\ started = 0
    /\ keys = <<>>
    /\ calls = <<>>
    /\ reported = EmptyBag
    /\ chinCloses = 0
    /\ choutCloses = 0
    /\ writes = EmptyBag

InitForN ==
    /\ m = NoMap
    /\ fn = "ForN"
    /\ InitRange
    /\ parallelism \in (0 - 1)..MaxParallelism

InitFor ==
    /\ m = NoMap
    /\ fn = "For"
    /\ InitRange
    /\ parallelism = 0

InitDo ==
    /\ m = NoMap
    /\ fn = "Do"
    /\ low = 0 /\ high = 0 /\ step = 0 /\ parallelism = 0
    /\ worker = NilType
    /\ functions \in SeqsUpTo(FunctionTypes, MaxFunctions)
    /\ fails \in SUBSET { k \in 0..(Len(functions) - 1) : ReturnsError(functions[k + 1]) }

(* A map with the keys 1..n, key k holding the value k + 10.                *)
MapOf(n) == MapArg("Map", [k \in 1..n |-> k + 10])

InitRangeMap ==
    /\ fn = "RangeMap"
    /\ low = 0 /\ high = 0 /\ step = 0 /\ parallelism = 0
    /\ worker = NilType
    /\ functions = <<>>
    /\ m \in { NoMap, MapArg("Int", <<>>) } \cup { MapOf(n) : n \in 0..MaxKeys }
    /\ fails \in SUBSET DOMAIN m.entries

(* The worker func(i int) error { return For(0, n, 1, inner) }, where      *)
(* inner is a func(j int) error.                                           *)
NestingWorker(n) ==
    [kind |-> "Func", numIn |-> 1, in0 |-> "Int", numOut |-> 1, out0 |-> "error",
     innerHigh |-> n]

(* For(0, high, 1, NestingWorker(n)), as in TestNestedFor.  fails holds    *)
(* the paths <<i, j>> of the inner units that return an error: none, or    *)
(* inner unit 0 of outer unit 0.                                           *)
InitNestedFor ==
    /\ fn = "NestedFor"
    /\ low = 0 /\ step = 1 /\ parallelism = 0
    /\ high \in 0..MaxOuter
    /\ worker \in { NestingWorker(n) : n \in 0..MaxInner }
    /\ functions = <<>>
    /\ m = NoMap
    /\ fails \in SUBSET {<<0, 0>>}

Init ==
    /\ InitForN \/ InitFor \/ InitDo \/ InitRangeMap
    /\ InitCommon

(* ------------------------------ ForN ----------------------------------- *)
(* Variant of ProdAt: the loop condition is i <= high.                     *)
ProdAtInclusive(v) == [pc |-> IF v <= high THEN "send" ELSE "close", i |-> v]

(* The producer's loop head: for i := low; i < high; i += step.            *)
ProdAt(v) == [pc |-> IF v < high THEN "send" ELSE "close", i |-> v]

(* Validation, make(chan), wg.Add(parallelism).  wg.Add panics when it     *)
(* makes the counter negative.                                             *)
ForNEntry ==
    /\ fn = "ForN"
    /\ mainpc = "entry"
    /\ IF ForNCheck # Pass
         THEN /\ result' = ForNCheck
              /\ mainpc' = "done"
              /\ wg' = wg
       ELSE IF wg + parallelism < 0
         THEN /\ result' = Panic(<<"sync: negative WaitGroup counter">>)
              /\ mainpc' = "done"
              /\ wg' = wg
       ELSE /\ wg' = wg + parallelism
            /\ mainpc' = "goProducer"
            /\ result' = result
    /\ UNCHANGED <<args, ext, mi, errs, chinClosed, choutClosed, prod, wk, closer, forVars, hist>>

(* go func() { for ...; close(chin) }()                                    *)
ForNGoProducer ==
    /\ fn = "ForN"
    /\ mainpc = "goProducer"
    /\ prod' = ProdAt(low)
    /\ started' = started + 1
    /\ mainpc' = "spawn"
    /\ mi' = 0
    /\ UNCHANGED <<args, ext, result, errs, chinClosed, choutClosed, wg, wk, closer, forVars,
                   invoked, returned>>

(* Variant of ForNSpawn: the loop condition is i <= parallelism.           *)
ForNSpawnOneMore ==
    /\ fn = "ForN"
    /\ mainpc = "spawn"
    /\ mi <= parallelism
    /\ wk' = wk @@ (mi :> [pc |-> "recv", input |-> 0])
    /\ started' = started + 1
    /\ mi' = mi + 1
    /\ UNCHANGED <<args, ext, mainpc, result, errs, chinClosed, choutClosed, wg, prod, closer,
                   forVars, invoked, returned>>

(* One iteration of  for i := 0; i < parallelism; i++ { go func ... }      *)
ForNSpawn ==
    /\ fn = "ForN"
    /\ mainpc = "spawn"
    /\ mi < parallelism
    /\ wk' = wk @@ (mi :> [pc |-> "recv", input |-> 0])
    /\ started' = started + 1
    /\ mi' = mi + 1
    /\ UNCHANGED <<args, ext, mainpc, result, errs, chinClosed, choutClosed, wg, prod, closer,
                   forVars, invoked, returned>>

(* The spawn loop ends; go func() { wg.Wait(); close(chout) }()            *)
ForNGoCloser ==
    /\ fn = "ForN"
    /\ mainpc = "spawn"
    /\ ~(mi < parallelism)
    /\ closer' = "wait"
    /\ started' = started + 1
    /\ mainpc' = "collect"
    /\ UNCHANGED <<args, ext, mi, result, errs, chinClosed, choutClosed, wg, prod, wk,
                   forVars, invoked, returned>>

(* chin <- i meets  input := range chin  of worker w; the worker goes on   *)
(* to call the worker function with the value received.                    *)
ChinSend(w) ==
    /\ prod.pc = "send"
    /\ ~chinClosed
    /\ wk[w].pc = "recv"
    /\ wk' = [wk EXCEPT ![w] = [pc |-> "running", input |-> prod.i]]
    /\ invoked' = invoked (+) SetToBag({prod.i})
    /\ prod' = ProdAt(prod.i + step)
    /\ UNCHANGED <<args, ext, mainpc, mi, result, errs, chinClosed, choutClosed, wg, closer,
                   forVars, returned, started>>

(* close(chin)                                                             *)
ProducerClose ==
    /\ prod.pc = "close"
    /\ chinClosed' = TRUE
    /\ prod' = [prod EXCEPT !.pc = "done"]
    /\ chinCloses' = chinCloses + 1
    /\ UNCHANGED <<rmVars, calls, reported, choutCloses, writes>>
    /\ UNCHANGED <<args, mainpc, mi, result, errs, choutClosed, wg, wk, closer,
                   forVars, hist>>

(* Variant of WorkerReturn: the error is dropped when another worker is    *)
(* already waiting to send on chout.                                       *)
WorkerReturnTrySend(w) ==
    /\ wk[w].pc = "running"
    /\ returned' = returned (+) SetToBag({wk[w].input})
    /\ wk' = [wk EXCEPT ![w].pc =
                 IF /\ worker.numOut # 0 /\ wk[w].input \in fails
                    /\ \A x \in DOMAIN wk : wk[x].pc # "sendErr"
                   THEN "sendErr" ELSE "recv"]
    /\ UNCHANGED <<args, ext, mainpc, mi, result, errs, chinClosed, choutClosed, wg, prod,
                   closer, forVars, invoked, started>>

(* Variant of WorkerReturn: every result, nil or not, is sent to chout.    *)
WorkerReturnSendAll(w) ==
    /\ wk[w].pc = "running"
    /\ returned' = returned (+) SetToBag({wk[w].input})
    /\ wk' = [wk EXCEPT ![w].pc = "sendErr"]
    /\ UNCHANGED <<args, ext, mainpc, mi, result, errs, chinClosed, choutClosed, wg, prod,
                   closer, forVars, invoked, started>>

(* val.Call returns in worker w: a non-nil error goes to chout, anything   *)
(* else takes the worker back to range chin.                               *)
WorkerReturn(w) ==
    /\ wk[w].pc = "running"
    /\ returned' = returned (+) SetToBag({wk[w].input})
    /\ wk' = [wk EXCEPT ![w].pc =
                 IF worker.numOut # 0 /\ wk[w].input \in fails THEN "sendErr" ELSE "recv"]
    /\ UNCHANGED <<args, ext, mainpc, mi, result, errs, chinClosed, choutClosed, wg, prod,
                   closer, forVars, invoked, started>>

(* Variant of ChoutSend: the caller ranges over chout only after wg.Wait() *)
(* has returned.                                                           *)
ChoutSendAfterWait(w) ==
    /\ wk[w].pc = "sendErr"
    /\ mainpc = "collect"
    /\ wg = 0
    /\ ~choutClosed
    /\ errs' = errs \o ErrLine(wk[w].input)
    /\ wk' = [wk EXCEPT ![w].pc = "recv"]
    /\ reported' = reported (+) SetToBag({wk[w].input})
    /\ UNCHANGED <<rmVars, calls, chinCloses, choutCloses, writes>>
    /\ UNCHANGED <<args, mainpc, mi, result, chinClosed, choutClosed, wg, prod, closer,
                   forVars, hist>>

(* Variant of ChoutSend: the caller assigns errs = ... instead of errs +=. *)
ChoutSendOverwrite(w) ==
    /\ wk[w].pc = "sendErr"
    /\ mainpc = "collect"
    /\ ~choutClosed
    /\ errs' = ErrLine(wk[w].input)
    /\ wk' = [wk EXCEPT ![w].pc = "recv"]
    /\ reported' = reported (+) SetToBag({wk[w].input})
    /\ UNCHANGED <<rmVars, calls, chinCloses, choutCloses, writes>>
    /\ UNCHANGED <<args, mainpc, mi, result, chinClosed, choutClosed, wg, prod, closer,
                   forVars, hist>>

(* chout <- err of worker w meets  e := range chout  of the caller, which  *)
(* appends e.Error() + "\n" to errs.                                       *)
ChoutSend(w) ==
    /\ wk[w].pc = "sendErr"
    /\ mainpc = "collect"
    /\ ~choutClosed
    /\ errs' = errs \o ErrLine(wk[w].input)
    /\ wk' = [wk EXCEPT ![w].pc = "recv"]
    /\ reported' = reported (+) SetToBag({wk[w].input})
    /\ UNCHANGED <<rmVars, calls, chinCloses, choutCloses, writes>>
    /\ UNCHANGED <<args, mainpc, mi, result, chinClosed, choutClosed, wg, prod, closer,
                   forVars, hist>>

(* range chin ends for worker w (chin closed); deferred wg.Done().         *)
WorkerExit(w) ==
    /\ wk[w].pc = "recv"
    /\ chinClosed
    /\ wk' = [wk EXCEPT ![w].pc = "done"]
    /\ wg' = wg - 1
    /\ UNCHANGED <<args, ext, mainpc, mi, result, errs, chinClosed, choutClosed, prod, closer,
                   forVars, hist>>

(* Variant of CloserClose: chout is closed without waiting on wg.          *)
CloserCloseNoWait ==
    /\ closer = "wait"
    /\ choutClosed' = TRUE
    /\ closer' = "done"
    /\ choutCloses' = choutCloses + 1
    /\ UNCHANGED <<rmVars, calls, reported, chinCloses, writes>>
    /\ UNCHANGED <<args, mainpc, mi, result, errs, chinClosed, wg, prod, wk,
                   forVars, hist>>

(* wg.Wait() returns; close(chout).                                        *)
CloserClose ==
    /\ closer = "wait"
    /\ wg = 0
    /\ choutClosed' = TRUE
    /\ closer' = "done"
    /\ choutCloses' = choutCloses + 1
    /\ UNCHANGED <<rmVars, calls, reported, chinCloses, writes>>
    /\ UNCHANGED <<args, mainpc, mi, result, errs, chinClosed, wg, prod, wk,
                   forVars, hist>>

(* Variant of ForNReturn: the caller stops receiving as soon as no worker  *)
(* is waiting to send, whether chout is closed or not.                     *)
ForNReturnEarly ==
    /\ fn = "ForN"
    /\ mainpc = "collect"
    /\ \A w \in DOMAIN wk : wk[w].pc # "sendErr"
    /\ result' = ErrOrNil(errs)
    /\ mainpc' = "done"
    /\ UNCHANGED <<args, ext, mi, errs, forNVars, forVars, hist>>

(* range chout ends (chout closed); ForN returns.                          *)
ForNReturn ==
    /\ fn = "ForN"
    /\ mainpc = "collect"
    /\ choutClosed
    /\ result' = ErrOrNil(errs)
    /\ mainpc' = "done"
    /\ UNCHANGED <<args, ext, mi, errs, forNVars, forVars, hist>>

(* ------------------------------- For ----------------------------------- *)
(* Variant of SemCap: the buffer of For's sem is one slot short.           *)
SemCapTight == IF fn = "Do" THEN Len(functions) ELSE high - low - 1

(* cap(sem): make(chan int, high-low) in For, make(chan int,               *)
(* len(functions)) in Do.                                                  *)
SemCap == IF fn = "Do" THEN Len(functions) ELSE high - low

(* Validation; sem, errs and mutex are created.                            *)
ForEntry ==
    /\ fn = "For"
    /\ mainpc = "entry"
    /\ IF ForCheck # Pass
         THEN /\ result' = ForCheck
              /\ mainpc' = "done"
              /\ mi' = mi
         ELSE /\ mainpc' = "spawn"
              /\ mi' = low
              /\ result' = result
    /\ UNCHANGED <<args, ext, errs, forNVars, forVars, hist>>

(* One iteration of the first loop: go func(v, i) {...}(v, i); i += step.  *)
ForSpawn ==
    /\ fn = "For"
    /\ mainpc = "spawn"
    /\ mi < high
    /\ gor' = (mi :> "ready") @@ gor
    /\ started' = started + 1
    /\ mi' = mi + step
    /\ UNCHANGED <<args, ext, mainpc, result, errs, forNVars, sem, mutex, tmp, errsDo,
                   invoked, returned>>

(* The first loop ends; the second loop starts at i := low.                *)
ForSpawnEnd ==
    /\ fn = "For"
    /\ mainpc = "spawn"
    /\ ~(mi < high)
    /\ mainpc' = "wait"
    /\ mi' = low
    /\ UNCHANGED <<args, ext, result, errs, forNVars, forVars, hist>>

(* One iteration of the second loop: <-sem; i += step.                     *)
ForWait ==
    /\ fn = "For"
    /\ mainpc = "wait"
    /\ mi < high
    /\ sem > 0
    /\ sem' = sem - 1
    /\ mi' = mi + step
    /\ UNCHANGED <<args, ext, mainpc, result, errs, forNVars, mutex, gor, tmp, errsDo, hist>>

(* The second loop ends; For returns errors.New(errs) or nil.              *)
ForReturn ==
    /\ fn = "For"
    /\ mainpc = "wait"
    /\ ~(mi < high)
    /\ result' = ErrOrNil(errs)
    /\ mainpc' = "done"
    /\ UNCHANGED <<args, ext, mi, errs, forNVars, forVars, hist>>

(* The goroutine of unit u calls the worker.                               *)
ForCall(u) ==
    /\ fn = "For"
    /\ gor[u] = "ready"
    /\ gor' = [gor EXCEPT ![u] = "running"]
    /\ invoked' = invoked (+) SetToBag({u})
    /\ UNCHANGED <<args, ext, mainpc, mi, result, errs, forNVars, sem, mutex, tmp, errsDo,
                   returned, started>>

(* v.Call returns: a non-nil error leads to mutex.Lock(), anything else to *)
(* sem <- 1.                                                               *)
ForWorkerReturn(u) ==
    /\ fn = "For"
    /\ gor[u] = "running"
    /\ returned' = returned (+) SetToBag({u})
    /\ gor' = [gor EXCEPT ![u] =
                  IF worker.numOut # 0 /\ u \in fails THEN "lock" ELSE "sem"]
    /\ UNCHANGED <<args, ext, mainpc, mi, result, errs, forNVars, sem, mutex, tmp, errsDo,
                   invoked, started>>

(* Variant of ForLock: the lock does not exclude other goroutines.         *)
ForLockNoMutex(u) ==
    /\ fn = "For"
    /\ gor[u] = "lock"
    /\ mutex' = TRUE
    /\ gor' = [gor EXCEPT ![u] = "read"]
    /\ UNCHANGED <<args, ext, mainpc, mi, result, errs, forNVars, sem, tmp, errsDo, hist>>

(* mutex.Lock() succeeds.                                                  *)
ForLock(u) ==
    /\ fn = "For"
    /\ gor[u] = "lock"
    /\ ~mutex
    /\ mutex' = TRUE
    /\ gor' = [gor EXCEPT ![u] = "read"]
    /\ UNCHANGED <<args, ext, mainpc, mi, result, errs, forNVars, sem, tmp, errsDo, hist>>

(* errs += ... , first half: the goroutine reads errs.                     *)
ForReadErrs(u) ==
    /\ fn = "For"
    /\ gor[u] = "read"
    /\ tmp' = (u :> errs) @@ tmp
    /\ gor' = [gor EXCEPT ![u] = "write"]
    /\ UNCHANGED <<args, ext, mainpc, mi, result, errs, forNVars, sem, mutex, errsDo, hist>>

(* errs += ... , second half: the goroutine stores the longer string.      *)
ForWriteErrs(u) ==
    /\ fn = "For"
    /\ gor[u] = "write"
    /\ errs' = tmp[u] \o ErrLine(u)
    /\ gor' = [gor EXCEPT ![u] = "semLocked"]
    /\ UNCHANGED <<args, ext, mainpc, mi, result, forNVars, sem, mutex, tmp, errsDo, hist>>

(* sem <- 1 (blocks while the buffer is full).  A goroutine that locked    *)
(* the mutex (position "semLocked") still has its deferred Unlock to run.  *)
ForSem(u) ==
    /\ fn = "For"
    /\ gor[u] \in {"sem", "semLocked"}
    /\ sem < SemCap
    /\ sem' = sem + 1
    /\ gor' = [gor EXCEPT ![u] = IF gor[u] = "semLocked" THEN "unlock" ELSE "done"]
    /\ UNCHANGED <<args, ext, mainpc, mi, result, errs, forNVars, mutex, tmp, errsDo, hist>>

(* The deferred mutex.Unlock().                                            *)
ForUnlock(u) ==
    /\ fn = "For"
    /\ gor[u] = "unlock"
    /\ mutex' = FALSE
    /\ gor' = [gor EXCEPT ![u] = "done"]
    /\ UNCHANGED <<args, ext, mainpc, mi, result, errs, forNVars, sem, tmp, errsDo, hist>>

(* ------------------------------- Do ------------------------------------ *)
NilError == [nil |-> TRUE, text |-> <<>>]
ErrorOf(k) == [nil |-> FALSE, text |-> Msg(k)]

(* Validation; sem and the slice errs (all nil) are created.               *)
DoEntry ==
    /\ fn = "Do"
    /\ mainpc = "entry"
    /\ IF DoCheck # Pass
         THEN /\ result' = DoCheck
              /\ mainpc' = "done"
              /\ UNCHANGED <<mi, errsDo>>
         ELSE /\ errsDo' = [k \in 0..(Len(functions) - 1) |-> NilError]
              /\ mainpc' = "spawn"
              /\ mi' = 0
              /\ result' = result
    /\ UNCHANGED <<args, ext, errs, forNVars, sem, mutex, gor, tmp, hist>>

(* One iteration of  for i, f := range functions { go func ... }           *)
DoSpawn ==
    /\ fn = "Do"
    /\ mainpc = "spawn"
    /\ mi < Len(functions)
    /\ gor' = (mi :> "ready") @@ gor
    /\ started' = started + 1
    /\ mi' = mi + 1
    /\ UNCHANGED <<args, ext, mainpc, result, errs, forNVars, sem, mutex, tmp, errsDo,
                   invoked, returned>>

(* The range loop ends; the waiting loop starts at i := 0.                 *)
DoSpawnEnd ==
    /\ fn = "Do"
    /\ mainpc = "spawn"
    /\ ~(mi < Len(functions))
    /\ mainpc' = "wait"
    /\ mi' = 0
    /\ UNCHANGED <<args, ext, result, errs, forNVars, forVars, hist>>

(* One iteration of  for i := 0; i < len(functions); i++ { <-sem }         *)
DoWait ==
    /\ fn = "Do"
    /\ mainpc = "wait"
    /\ mi < Len(functions)
    /\ sem > 0
    /\ sem' = sem - 1
    /\ mi' = mi + 1
    /\ UNCHANGED <<args, ext, mainpc, result, errs, forNVars, mutex, gor, tmp, errsDo, hist>>

(* Variant of JoinErrs: the entries are joined from the last to the first. *)
RECURSIVE JoinErrsReversed(_, _)
JoinErrsReversed(es, k) ==
    IF k \notin DOMAIN es THEN <<>>
    ELSE JoinErrsReversed(es, k + 1) \o (IF es[k].nil THEN <<>> ELSE es[k].text \o <<NL>>)

(* r: the messages of the non-nil entries of errs[k..], each followed by a *)
(* newline, in index order.                                                *)
RECURSIVE JoinErrs(_, _)
JoinErrs(es, k) ==
    IF k \notin DOMAIN es THEN <<>>
    ELSE (IF es[k].nil THEN <<>> ELSE es[k].text \o <<NL>>) \o JoinErrs(es, k + 1)

(* The waiting loop ends; Do builds r and returns errors.New(r) or nil.    *)
DoReturn ==
    /\ fn = "Do"
    /\ mainpc = "wait"
    /\ ~(mi < Len(functions))
    /\ result' = ErrOrNil(JoinErrs(errsDo, 0))
    /\ mainpc' = "done"
    /\ UNCHANGED <<args, ext, mi, errs, forNVars, forVars, hist>>

(* The goroutine of position k calls its function.                         *)
DoCall(k) ==
    /\ fn = "Do"
    /\ gor[k] = "ready"
    /\ gor' = [gor EXCEPT ![k] = "running"]
    /\ invoked' = invoked (+) SetToBag({k})
    /\ UNCHANGED <<args, ext, mainpc, mi, result, errs, forNVars, sem, mutex, tmp, errsDo,
                   returned, started>>

(* v.Call returns: a non-nil error is to be stored in errs[i].             *)
DoWorkerReturn(k) ==
    /\ fn = "Do"
    /\ gor[k] = "running"
    /\ returned' = returned (+) SetToBag({k})
    /\ gor' = [gor EXCEPT ![k] =
                  IF functions[k + 1].numOut # 0 /\ k \in fails THEN "store" ELSE "sem"]
    /\ UNCHANGED <<args, ext, mainpc, mi, result, errs, forNVars, sem, mutex, tmp, errsDo,
                   invoked, started>>

(* Variant of DoStore: every goroutine stores into errs[0].                *)
DoStoreSlot0(k) ==
    /\ fn = "Do"
    /\ gor[k] = "store"
    /\ errsDo' = [errsDo EXCEPT ![0] = ErrorOf(k)]
    /\ gor' = [gor EXCEPT ![k] = "sem"]
    /\ writes' = writes (+) SetToBag({<<0, k>>})
    /\ UNCHANGED <<rmVars, calls, reported, chinCloses, choutCloses>>
    /\ UNCHANGED <<args, mainpc, mi, result, errs, forNVars, sem, mutex, tmp, hist>>

(* errs[i] = r[0].Interface().(error)                                      *)
DoStore(k) ==
    /\ fn = "Do"
    /\ gor[k] = "store"
    /\ errsDo' = [errsDo EXCEPT ![k] = ErrorOf(k)]
    /\ gor' = [gor EXCEPT ![k] = "sem"]
    /\ writes' = writes (+) SetToBag({<<k, k>>})
    /\ UNCHANGED <<rmVars, calls, reported, chinCloses, choutCloses>>
    /\ UNCHANGED <<args, mainpc, mi, result, errs, forNVars, sem, mutex, tmp, hist>>

(* sem <- 1 (blocks while the buffer is full).                             *)
DoSem(k) ==
    /\ fn = "Do"
    /\ gor[k] = "sem"
    /\ sem < SemCap
    /\ sem' = sem + 1
    /\ gor' = [gor EXCEPT ![k] = "done"]
    /\ UNCHANGED <<args, ext, mainpc, mi, result, errs, forNVars, mutex, tmp, errsDo, hist>>

(* ----------------------------- RangeMap -------------------------------- *)
(* Variant of RangeMapCheck: the kind of m is not checked.                 *)
RangeMapNoCheck == Pass

(* The check at the top of RangeMap; reflect.TypeOf(nil).Kind() is a nil   *)
(* dereference.                                                            *)
RangeMapCheck ==
    IF m.kind = "Nil" THEN Panic(<<"nil pointer dereference">>)
    ELSE IF m.kind # "Map" THEN Panic(<<"%+v is not a map">>)
    ELSE Pass

(* The orders in which MapKeys() may return the keys of S.                 *)
KeyOrders(S) ==
    { q \in [1..Cardinality(S) -> S] : \A a, b \in 1..Cardinality(S) : q[a] = q[b] => a = b }

(* The check, keys := MapKeys(), es := make([]error, len(keys)).           *)
RangeMapEntry ==
    /\ fn = "RangeMap"
    /\ mainpc = "entry"
    /\ IF RangeMapCheck # Pass
         THEN /\ result' = RangeMapCheck
              /\ mainpc' = "done"
              /\ UNCHANGED <<mi, errsDo, keys>>
         ELSE /\ keys' \in KeyOrders(DOMAIN m.entries)
              /\ errsDo' = [i \in 0..(Cardinality(DOMAIN m.entries) - 1) |-> NilError]
              /\ mainpc' = "spawn"
              /\ mi' = 0
              /\ result' = result
    /\ UNCHANGED <<args, m, calls, ghost, errs, forNVars, sem, mutex, gor, tmp, hist>>

(* Variant of RangeMapSpawn: wg.Add(1) is not executed before the          *)
(* goroutine is started.                                                   *)
RangeMapSpawnNoAdd ==
    /\ fn = "RangeMap"
    /\ mainpc = "spawn"
    /\ mi < Len(keys)
    /\ gor' = (mi :> [pc |-> "ready", k |-> keys[mi + 1], v |-> m.entries[keys[mi + 1]]]) @@ gor
    /\ started' = started + 1
    /\ mi' = mi + 1
    /\ UNCHANGED <<args, ext, mainpc, result, errs, forNVars, sem, mutex, tmp, errsDo,
                   invoked, returned>>

(* One iteration of  for i, k := range keys: wg.Add(1), then               *)
(* go func(k, v, i) {...}(k, MapIndex(k), i).                              *)
RangeMapSpawn ==
    /\ fn = "RangeMap"
    /\ mainpc = "spawn"
    /\ mi < Len(keys)
    /\ wg' = wg + 1
    /\ gor' = (mi :> [pc |-> "ready", k |-> keys[mi + 1], v |-> m.entries[keys[mi + 1]]]) @@ gor
    /\ started' = started + 1
    /\ mi' = mi + 1
    /\ UNCHANGED <<args, ext, mainpc, result, errs, chinClosed, choutClosed, prod, wk,
                   closer, sem, mutex, tmp, errsDo, invoked, returned>>

(* The range loop ends; the caller reaches wg.Wait().                      *)
RangeMapSpawnEnd ==
    /\ fn = "RangeMap"
    /\ mainpc = "spawn"
    /\ ~(mi < Len(keys))
    /\ mainpc' = "wait"
    /\ UNCHANGED <<args, ext, mi, result, errs, forNVars, forVars, hist>>

(* The goroutine of slot i calls f(k, v).                                  *)
RangeMapCall(i) ==
    /\ fn = "RangeMap"
    /\ gor[i].pc = "ready"
    /\ gor' = [gor EXCEPT ![i].pc = "running"]
    /\ invoked' = invoked (+) SetToBag({<<gor[i].k, gor[i].v>>})
    /\ UNCHANGED <<args, ext, mainpc, mi, result, errs, forNVars, sem, mutex, tmp, errsDo,
                   returned, started>>

(* f(k, v) returns.                                                        *)
RangeMapWorkerReturn(i) ==
    /\ fn = "RangeMap"
    /\ gor[i].pc = "running"
    /\ gor' = [gor EXCEPT ![i].pc = "store"]
    /\ returned' = returned (+) SetToBag({<<gor[i].k, gor[i].v>>})
    /\ UNCHANGED <<args, ext, mainpc, mi, result, errs, forNVars, sem, mutex, tmp, errsDo,
                   invoked, started>>

(* es[i] = the value f returned (nil or an error).                         *)
RangeMapStore(i) ==
    /\ fn = "RangeMap"
    /\ gor[i].pc = "store"
    /\ errsDo' = [errsDo EXCEPT ![i] =
                     IF gor[i].k \in fails THEN ErrorOf(gor[i].k) ELSE NilError]
    /\ gor' = [gor EXCEPT ![i].pc = "deferred"]
    /\ writes' = writes (+) SetToBag({<<i, i>>})
    /\ UNCHANGED <<rmVars, calls, reported, chinCloses, choutCloses>>
    /\ UNCHANGED <<args, mainpc, mi, result, errs, forNVars, sem, mutex, tmp, hist>>

(* The deferred wg.Done().                                                 *)
RangeMapDone(i) ==
    /\ fn = "RangeMap"
    /\ gor[i].pc = "deferred"
    /\ gor' = [gor EXCEPT ![i].pc = "done"]
    /\ wg' = wg - 1
    /\ UNCHANGED <<args, ext, mainpc, mi, result, errs, chinClosed, choutClosed, prod, wk,
                   closer, sem, mutex, tmp, errsDo, hist>>

(* wg.Wait() returns; RangeMap joins es and returns errors.New(r) or nil.  *)
RangeMapReturn ==
    /\ fn = "RangeMap"
    /\ mainpc = "wait"
    /\ wg = 0
    /\ result' = ErrOrNil(JoinErrs(errsDo, 0))
    /\ mainpc' = "done"
    /\ UNCHANGED <<args, ext, mi, errs, forNVars, forVars, hist>>

(* ---------------------------- nested For ------------------------------- *)
(* A call of For in progress: its arguments and its local variables.  The  *)
(* outer call has the path <<>>, the call made by its worker for unit i    *)
(* the path <<i>>.                                                         *)
NewCall(l, h, s) ==
    [low |-> l, high |-> h, step |-> s,
     pc |-> "spawn", mi |-> l, sem |-> 0, errs |-> <<>>, mutex |-> FALSE,
     gor |-> <<>>, tmp |-> <<>>, result |-> NoResult]

(* The outer call passes its checks and creates sem, errs and mutex.       *)
NestedEntry ==
    /\ fn = "NestedFor"
    /\ mainpc = "entry"
    /\ IF ForCheck # Pass
         THEN /\ result' = ForCheck
              /\ mainpc' = "done"
              /\ calls' = calls
         ELSE /\ calls' = (<<>> :> NewCall(low, high, step)) @@ calls
              /\ mainpc' = "running"
              /\ result' = result
    /\ UNCHANGED <<args, rmVars, ghost, mi, errs, forNVars, forVars, hist>>

(* One iteration of the first loop of call p.                              *)
NestedSpawn(p) ==
    /\ calls[p].pc = "spawn"
    /\ calls[p].mi < calls[p].high
    /\ calls' = [calls EXCEPT ![p].gor = (calls[p].mi :> "ready") @@ calls[p].gor,
                              ![p].mi = calls[p].mi + calls[p].step]
    /\ started' = started + 1
    /\ UNCHANGED <<args, rmVars, ghost, mainpc, mi, result, errs, forNVars, forVars,
                   invoked, returned>>

(* The first loop of call p ends; its second loop starts at i := low.      *)
NestedSpawnEnd(p) ==
    /\ calls[p].pc = "spawn"
    /\ ~(calls[p].mi < calls[p].high)
    /\ calls' = [calls EXCEPT ![p].pc = "wait", ![p].mi = calls[p].low]
    /\ UNCHANGED <<args, rmVars, ghost, mainpc, mi, result, errs, forNVars, forVars, hist>>

(* One iteration of the second loop of call p: <-sem on its own sem.       *)
NestedWait(p) ==
    /\ calls[p].pc = "wait"
    /\ calls[p].mi < calls[p].high
    /\ calls[p].sem > 0
    /\ calls' = [calls EXCEPT ![p].sem = calls[p].sem - 1,
                              ![p].mi = calls[p].mi + calls[p].step]
    /\ UNCHANGED <<args, rmVars, ghost, mainpc, mi, result, errs, forNVars, forVars, hist>>

(* The second loop of call p ends and the call returns; the return of the  *)
(* outer call ends the behaviour.                                          *)
NestedReturn(p) ==
    /\ calls[p].pc = "wait"
    /\ ~(calls[p].mi < calls[p].high)
    /\ calls' = [calls EXCEPT ![p].pc = "done", ![p].result = ErrOrNil(calls[p].errs)]
    /\ IF p = <<>>
         THEN mainpc' = "done" /\ result' = ErrOrNil(calls[p].errs)
         ELSE UNCHANGED <<mainpc, result>>
    /\ UNCHANGED <<args, rmVars, ghost, mi, errs, forNVars, forVars, hist>>

(* What the invocation for unit u of call p returns: the outer call's      *)
(* worker returns what its own call of For returned.                       *)
NestedOutcome(p, u) ==
    IF p = <<>> THEN calls[<<u>>].result
    ELSE IF Append(p, u) \in fails THEN Err(Msg(u)) ELSE Nil

(* The goroutine of unit u of call p calls the worker.  The outer call's   *)
(* worker enters a call of For of its own; an inner call's worker is a     *)
(* single return statement, so its v.Call is one step.                     *)
NestedCall(p, u) ==
    /\ calls[p].gor[u] = "ready"
    /\ IF p = <<>>
         THEN /\ calls' = (<<u>> :> NewCall(0, worker.innerHigh, 1)) @@
                              [calls EXCEPT ![p].gor[u] = "running"]
              /\ returned' = returned
         ELSE /\ calls' = [calls EXCEPT ![p].gor[u] =
                              IF NestedOutcome(p, u).nil THEN "sem" ELSE "lock"]
              /\ returned' = returned (+) SetToBag({Append(p, u)})
    /\ invoked' = invoked (+) SetToBag({Append(p, u)})
    /\ UNCHANGED <<args, rmVars, ghost, mainpc, mi, result, errs, forNVars, forVars,
                   started>>

(* v.Call returns in the goroutine of unit u of the outer call, once the   *)
(* worker's own call of For has returned.                                  *)
NestedWorkerReturn(p, u) ==
    /\ calls[p].gor[u] = "running"
    /\ calls[<<u>>].pc = "done"
    /\ calls' = [calls EXCEPT ![p].gor[u] =
                    IF NestedOutcome(p, u).nil THEN "sem" ELSE "lock"]
    /\ returned' = returned (+) SetToBag({Append(p, u)})
    /\ UNCHANGED <<args, rmVars, ghost, mainpc, mi, result, errs, forNVars, forVars,
                   invoked, started>>

(* mutex.Lock() on the mutex of call p succeeds.                           *)
NestedLock(p, u) ==
    /\ calls[p].gor[u] = "lock"
    /\ ~calls[p].mutex
    /\ calls' = [calls EXCEPT ![p].mutex = TRUE, ![p].gor[u] = "read"]
    /\ UNCHANGED <<args, rmVars, ghost, mainpc, mi, result, errs, forNVars, forVars, hist>>

(* errs += ... on the errs of call p, first half.                          *)
NestedReadErrs(p, u) ==
    /\ calls[p].gor[u] = "read"
    /\ calls' = [calls EXCEPT ![p].tmp = (u :> calls[p].errs) @@ calls[p].tmp,
                              ![p].gor[u] = "write"]
    /\ UNCHANGED <<args, rmVars, ghost, mainpc, mi, result, errs, forNVars, forVars, hist>>

(* errs += fmt.Sprintf("%v\n", err) on the errs of call p, second half.    *)
NestedWriteErrs(p, u) ==
    /\ calls[p].gor[u] = "write"
    /\ calls' = [calls EXCEPT ![p].errs = calls[p].tmp[u] \o NestedOutcome(p, u).text \o <<NL>>,
                              ![p].gor[u] = "semLocked"]
    /\ UNCHANGED <<args, rmVars, ghost, mainpc, mi, result, errs, forNVars, forVars, hist>>

(* Variant of NestedSem: sem is one channel shared by all calls.           *)
NestedSemShared(p, u) ==
    /\ calls[p].gor[u] \in {"sem", "semLocked"}
    /\ calls[<<>>].sem < calls[<<>>].high - calls[<<>>].low
    /\ calls' = [calls EXCEPT ![<<>>].sem = calls[<<>>].sem + 1,
                              ![p].gor[u] = IF calls[p].gor[u] = "semLocked"
                                              THEN "unlock" ELSE "done"]
    /\ UNCHANGED <<args, rmVars, ghost, mainpc, mi, result, errs, forNVars, forVars, hist>>

(* sem <- 1 on the sem of call p, whose capacity is high - low.            *)
NestedSem(p, u) ==
    /\ calls[p].gor[u] \in {"sem", "semLocked"}
    /\ calls[p].sem < calls[p].high - calls[p].low
    /\ calls' = [calls EXCEPT ![p].sem = calls[p].sem + 1,
                              ![p].gor[u] = IF calls[p].gor[u] = "semLocked"
                                              THEN "unlock" ELSE "done"]
    /\ UNCHANGED <<args, rmVars, ghost, mainpc, mi, result, errs, forNVars, forVars, hist>>

(* The deferred mutex.Unlock() on the mutex of call p.                     *)
NestedUnlock(p, u) ==
    /\ calls[p].gor[u] = "unlock"
    /\ calls' = [calls EXCEPT ![p].mutex = FALSE, ![p].gor[u] = "done"]
    /\ UNCHANGED <<args, rmVars, ghost, mainpc, mi, result, errs, forNVars, forVars, hist>>

(* The steps of a call of For.                                             *)
ForNext ==
    \/ ForEntry
    \/ ForSpawn
    \/ ForSpawnEnd
    \/ ForWait
    \/ ForReturn
    \/ \E u \in DOMAIN gor : ForCall(u)
    \/ \E u \in DOMAIN gor : ForWorkerReturn(u)
    \/ \E u \in DOMAIN gor : ForLock(u)
    \/ \E u \in DOMAIN gor : ForReadErrs(u)
    \/ \E u \in DOMAIN gor : ForWriteErrs(u)
    \/ \E u \in DOMAIN gor : ForSem(u)
    \/ \E u \in DOMAIN gor : ForUnlock(u)

Next ==
    \/ ForNEntry
    \/ ForNGoProducer
    \/ ForNSpawn
    \/ ForNGoCloser
    \/ \E w \in DOMAIN wk : ChinSend(w)
    \/ ProducerClose
    \/ \E w \in DOMAIN wk : WorkerReturn(w)
    \/ \E w \in DOMAIN wk : ChoutSend(w)
    \/ \E w \in DOMAIN wk : WorkerExit(w)
    \/ CloserClose
    \/ ForNReturn
    \/ ForNext
    \/ DoEntry
    \/ DoSpawn
    \/ DoSpawnEnd
    \/ DoWait
    \/ DoReturn
    \/ \E k \in DOMAIN gor : DoCall(k)
    \/ \E k \in DOMAIN gor : DoWorkerReturn(k)
    \/ \E k \in DOMAIN gor : DoStore(k)
    \/ \E k \in DOMAIN gor : DoSem(k)
    \/ RangeMapEntry
    \/ RangeMapSpawn
    \/ RangeMapSpawnEnd
    \/ \E i \in DOMAIN gor : RangeMapCall(i)
    \/ \E i \in DOMAIN gor : RangeMapWorkerReturn(i)
    \/ \E i \in DOMAIN gor : RangeMapStore(i)
    \/ \E i \in DOMAIN gor : RangeMapDone(i)
    \/ RangeMapReturn

Spec == Init /\ [][Next]_vars

(* Every goroutine that can take a step eventually takes one.              *)
FairSpec == Spec /\ WF_vars(Next)

(* The calls of For alone.                                                 *)
ForInit ==
    /\ InitFor
    /\ InitCommon

ForSpec == ForInit /\ [][ForNext]_vars

ForFairSpec == ForSpec /\ WF_vars(ForNext)

(* A call of For whose worker calls For.                                   *)
NestedInit ==
    /\ InitNestedFor
    /\ InitCommon

NestedNext ==
    \/ NestedEntry
    \/ \E p \in DOMAIN calls : NestedSpawn(p)
    \/ \E p \in DOMAIN calls : NestedSpawnEnd(p)
    \/ \E p \in DOMAIN calls : NestedWait(p)
    \/ \E p \in DOMAIN calls : NestedReturn(p)
    \/ \E p \in DOMAIN calls : \E u \in DOMAIN calls[p].gor : NestedCall(p, u)
    \/ \E p \in DOMAIN calls : \E u \in DOMAIN calls[p].gor : NestedWorkerReturn(p, u)
    \/ \E p \in DOMAIN calls : \E u \in DOMAIN calls[p].gor : NestedLock(p, u)
    \/ \E p \in DOMAIN calls : \E u \in DOMAIN calls[p].gor : NestedReadErrs(p, u)
    \/ \E p \in DOMAIN calls : \E u \in DOMAIN calls[p].gor : NestedWriteErrs(p, u)
    \/ \E p \in DOMAIN calls : \E u \in DOMAIN calls[p].gor : NestedSem(p, u)
    \/ \E p \in DOMAIN calls : \E u \in DOMAIN calls[p].gor : NestedUnlock(p, u)

NestedSpec == NestedInit /\ [][NestedNext]_vars

(* ======================= properties of the calls ======================= *)
(* The arguments the entry points document as valid.                       *)
ValidRange == low <= high /\ step > 0
ValidWorker == worker \in { FuncType(1, "Int", 0, ""), FuncType(1, "Int", 1, "error") }
ValidFunctions ==
    \A k \in 1..Len(functions) :
        functions[k] \in { FuncType(0, "", 0, ""), FuncType(0, "", 1, "error") }

(* ceil((high-low)/step) and the arithmetic sequence low, low+step, ...    *)
NumUnits == (high - low + step - 1) \div step
UnitSet == { low + k * step : k \in 0..(NumUnits - 1) }

(* The units the call is given.                                            *)
Submitted == IF fn = "Do" THEN 0..(Len(functions) - 1) ELSE UnitSet

(* Invocations that have started and not yet returned.                     *)
InFlight == BagCardinality(invoked) - BagCardinality(returned)

Returned == mainpc = "done" /\ result.state = "returned"

(* The lines of a text: the pieces that end at each newline, and what      *)
(* follows the last newline if anything does.                              *)
RECURSIVE SplitLines(_)
SplitLines(t) ==
    IF t = <<>> THEN <<>>
    ELSE LET nls == { k \in 1..Len(t) : t[k] = NL } IN
         IF nls = {} THEN <<t>>
         ELSE LET k == CHOOSE x \in nls : \A y \in nls : x <= y IN
              <<SubSeq(t, 1, k - 1)>> \o SplitLines(SubSeq(t, k + 1, Len(t)))

Terminated(t) == t = <<>> \/ t[Len(t)] = NL

(* t consists of exactly one newline-terminated line per unit of F, each   *)
(* the message of a different unit of F.                                   *)
LinesAre(t, F) ==
    /\ Terminated(t)
    /\ Len(SplitLines(t)) = Cardinality(F)
    /\ { SplitLines(t)[k] : k \in 1..Len(SplitLines(t)) } = { Msg(u) : u \in F }

(* The units whose invocation has returned a non-nil error.                *)
Failed == { u \in BagToSet(returned) : u \in fails }

(* C1: in a ForN call with low <= high, step > 0 and parallelism >= 1 no   *)
(* value outside the sequence low, low+step, ... (< high) is ever invoked  *)
(* and none is invoked twice; when ForN has returned, every value of the   *)
(* sequence has been invoked exactly once (ceil((high-low)/step)           *)
(* invocations), whichever units returned an error.                        *)
C1_ExactlyOncePerValue ==
    (fn = "ForN" /\ ValidRange /\ ValidWorker /\ parallelism >= 1) =>
        /\ \A v \in BagToSet(invoked) : v \in UnitSet /\ CopiesIn(v, invoked) = 1
        /\ Returned =>
             /\ BagToSet(invoked) = UnitSet
             /\ BagCardinality(invoked) = NumUnits
             /\ returned = invoked

C1_Witness ==
    /\ fn = "ForN" /\ ValidRange /\ ValidWorker /\ Returned
    /\ parallelism = 2
    /\ NumUnits = 3 /\ Cardinality(fails) = 2
    /\ BagCardinality(invoked) = 3

(* C2: in every state of a ForN call with parallelism >= 1 at most         *)
(* parallelism invocations have started and not yet returned.              *)
C2_AtMostPInFlight ==
    (fn = "ForN" /\ parallelism >= 1) => InFlight <= parallelism

C2_Witness ==
    /\ fn = "ForN" /\ parallelism = 2
    /\ InFlight = 2
    /\ prod.pc = "send"

(* C3: under fair scheduling a ForN call with a valid range, a valid       *)
(* worker and parallelism >= 1 eventually returns, and a worker blocked    *)
(* sending on chout is eventually received from.                           *)
C3_ForNReturns ==
    /\ (fn = "ForN" /\ ValidRange /\ ValidWorker /\ parallelism >= 1) ~> Returned
    /\ \A w \in 0..MaxParallelism :
         (w \in DOMAIN wk /\ wk[w].pc = "sendErr")
            ~> ~(w \in DOMAIN wk /\ wk[w].pc = "sendErr")

C3_Witness ==
    /\ fn = "ForN" /\ ValidRange /\ ValidWorker /\ Returned
    /\ NumUnits = 2 /\ parallelism > NumUnits
    /\ fails = UnitSet
    /\ ~result.nil

(* C4: ForN, For and Do, called with valid arguments, return only after    *)
(* every unit they were given has been invoked and every invocation has    *)
(* returned.                                                               *)
C4_ReturnAfterAllUnits ==
    (/\ Returned
     /\ \/ fn \in {"ForN", "For"} /\ ValidRange /\ ValidWorker
        \/ fn = "Do" /\ ValidFunctions) =>
        /\ InFlight = 0
        /\ \A u \in Submitted : CopiesIn(u, returned) >= 1

(* C5: when a valid ForN call has returned, its error consists of exactly  *)
(* one newline-terminated line per unit that returned a non-nil error, the *)
(* set of lines being the set of those units' messages; it is nil when no  *)
(* unit returned an error.                                                 *)
C5_OneLinePerFailedUnit ==
    (fn = "ForN" /\ ValidRange /\ ValidWorker /\ Returned) =>
        /\ result.nil <=> Failed = {}
        /\ LinesAre(result.text, Failed)

C5_Witness ==
    /\ fn = "ForN" /\ ValidRange /\ ValidWorker /\ Returned
    /\ parallelism = 2
    /\ NumUnits = 3 /\ Cardinality(Failed) = 2
    /\ Len(SplitLines(result.text)) = 2

(* C6: when no unit returns an error, ForN (parallelism >= 1), For and Do, *)
(* called with valid arguments, return nil; also for the empty range and   *)
(* the empty list.                                                         *)
C6_NilWhenAllSucceed ==
    (/\ mainpc = "done"
     /\ fails = {}
     /\ \/ fn = "ForN" /\ ValidRange /\ ValidWorker /\ parallelism >= 1
        \/ fn = "For" /\ ValidRange /\ ValidWorker
        \/ fn = "Do" /\ ValidFunctions) =>
        result = Nil

C6_Witness ==
    /\ fn = "ForN" /\ mainpc = "done" /\ result = Nil
    /\ ReturnsError(worker) /\ fails = {}
    /\ parallelism = 2 /\ BagCardinality(returned) = 3

(* C7: a ForN call with parallelism <= 0 (its other arguments valid)       *)
(* starts no goroutine, invokes the worker zero times and ends by          *)
(* returning a non-nil error.                                              *)
C7_NonPositiveParallelismRejected ==
    (fn = "ForN" /\ parallelism <= 0 /\ ValidRange /\ ValidWorker) =>
        /\ started = 0
        /\ invoked = EmptyBag
        /\ mainpc = "done" => (Returned /\ ~result.nil)

(* C8: a ForN or For call with low > high or step <= 0 starts no           *)
(* goroutine, sends on no channel, invokes the worker zero times, and      *)
(* returns a non-nil error as its first step.                              *)
C8_BadRangeRejected ==
    (fn \in {"ForN", "For"} /\ (low > high \/ step <= 0)) =>
        /\ started = 0
        /\ invoked = EmptyBag
        /\ sem = 0 /\ errs = <<>> /\ prod.pc = "idle"
        /\ mainpc \in {"entry", "done"}
        /\ mainpc = "done" => (Returned /\ ~result.nil)

C8_Witness ==
    /\ fn = "For" /\ low <= high /\ step = 0 /\ ValidWorker
    /\ Returned /\ ~result.nil

(* C9: For and ForN, called with a valid range and a worker that is not a  *)
(* func(int) or func(int) error, and Do, called with some argument that is *)
(* not a func() or func() error, invoke nothing, start no goroutine and    *)
(* return a non-nil error.                                                 *)
C9_BadCallableRejected ==
    (\/ fn \in {"ForN", "For"} /\ ValidRange /\ ~ValidWorker
     \/ fn = "Do" /\ ~ValidFunctions) =>
        /\ started = 0
        /\ invoked = EmptyBag
        /\ mainpc = "done" => (Returned /\ ~result.nil)

(* C10: in a For call with low <= high, step > 0 and a valid worker, no    *)
(* value outside the loop's sequence is invoked and none twice; when For   *)
(* has returned, every value has been invoked exactly once, the error is   *)
(* nil if no invocation failed and otherwise its text is made of exactly   *)
(* the failing units' messages, each followed by a newline, in some order; *)
(* and the string errs is not written after For has read it.               *)
C10_ForExactlyOnceAndErrors ==
    (fn = "For" /\ ValidRange /\ ValidWorker) =>
        /\ \A v \in BagToSet(invoked) : v \in UnitSet /\ CopiesIn(v, invoked) = 1
        /\ Returned =>
             /\ BagToSet(invoked) = UnitSet
             /\ returned = invoked
             /\ result.nil <=> fails = {}
             /\ LinesAre(result.text, fails)
             /\ errs = result.text
             /\ \A u \in DOMAIN gor : gor[u] \in {"unlock", "done"}

C10_Witness ==
    /\ fn = "For" /\ Returned
    /\ low = 0 /\ high = 3 /\ step = 1
    /\ result.text = ErrLine(2) \o ErrLine(0)

(* The failing positions' messages, one per line, in position order.       *)
RECURSIVE LinesInOrder(_, _)
LinesInOrder(k, n) ==
    IF k >= n THEN <<>>
    ELSE (IF k \in fails THEN ErrLine(k) ELSE <<>>) \o LinesInOrder(k + 1, n)

(* C11: in a Do call with valid callables no callable is invoked twice;    *)
(* when Do has returned every callable has been invoked exactly once, and  *)
(* the error is nil if none failed and otherwise its text is the failing   *)
(* callables' messages, one per line, in argument-list order.              *)
C11_DoOnceAndInOrder ==
    (fn = "Do" /\ ValidFunctions) =>
        /\ \A v \in BagToSet(invoked) :
              v \in 0..(Len(functions) - 1) /\ CopiesIn(v, invoked) = 1
        /\ Returned =>
             /\ BagToSet(invoked) = 0..(Len(functions) - 1)
             /\ returned = invoked
             /\ result.nil <=> fails = {}
             /\ result.text = LinesInOrder(0, Len(functions))

C11_Witness ==
    /\ fn = "Do" /\ ValidFunctions /\ Returned
    /\ Len(functions) = 3 /\ fails = {0, 2}
    /\ functions[2] = FuncType(0, "", 0, "")
    /\ result.text = ErrLine(0) \o ErrLine(2)
    /\ BagCardinality(returned) = 3

(* C12: in a RangeMap call on a map, f is invoked only with a key of the   *)
(* map and that key's value and at most once per key; the WaitGroup        *)
(* counter always equals the number of goroutines started and not yet      *)
(* done; when RangeMap has returned, f has been invoked and has returned   *)
(* exactly once per key, every goroutine is done, and the result is nil    *)
(* iff no invocation failed, otherwise one line per failing invocation.    *)
C12_RangeMapOncePerKey ==
    (fn = "RangeMap" /\ m.kind = "Map") =>
        /\ \A x \in BagToSet(invoked) :
              /\ x[1] \in DOMAIN m.entries
              /\ x[2] = m.entries[x[1]]
              /\ CopiesIn(x, invoked) = 1
        /\ wg = Cardinality({ i \in DOMAIN gor : gor[i].pc # "done" })
        /\ Returned =>
             /\ { x[1] : x \in BagToSet(invoked) } = DOMAIN m.entries
             /\ BagCardinality(invoked) = Cardinality(DOMAIN m.entries)
             /\ returned = invoked
             /\ \A i \in DOMAIN gor : gor[i].pc = "done"
             /\ result.nil <=> fails = {}
             /\ LinesAre(result.text, fails)

C12_Witness ==
    /\ fn = "RangeMap" /\ m = MapOf(3) /\ Returned
    /\ keys = <<2, 3, 1>>
    /\ fails = {1, 3}
    /\ BagCardinality(returned) = 3
    /\ Len(SplitLines(result.text)) = 2

Outcome ==
    <<invoked,
      { SplitLines(result.text)[k] : k \in 1..Len(SplitLines(result.text)) },
      result.nil>>

(* The outcome determined by the range and the worker alone.               *)
ExpectedOutcome ==
    <<SetToBag(UnitSet), { Msg(u) : u \in fails }, fails = {}>>

(* C15: when a ForN call with any parallelism >= 1, or a For call, on a    *)
(* valid range with a valid worker has returned, its outcome is the one    *)
(* determined by the range and the worker alone: it does not depend on the *)
(* bound, and ForN and For agree.                                          *)
C15_OutcomeIndependentOfBound ==
    (/\ fn \in {"ForN", "For"} /\ ValidRange /\ ValidWorker
     /\ fn = "ForN" => parallelism >= 1
     /\ Returned) =>
        Outcome = ExpectedOutcome

C15_Witness ==
    /\ fn = "ForN" /\ ValidRange /\ ValidWorker /\ Returned
    /\ parallelism = 3 /\ NumUnits = 2
    /\ fails = UnitSet
    /\ Outcome = ExpectedOutcome

(* C16: when a ForN call with a valid range, a valid worker and            *)
(* parallelism >= 1 has returned, the producer has closed chin and ended,  *)
(* all parallelism workers have left their loop and called wg.Done(),      *)
(* chout is closed and the closing goroutine has ended: no goroutine of    *)
(* the call is left blocked on chin or chout.                              *)
C16_TornDownAtReturn ==
    (fn = "ForN" /\ ValidRange /\ ValidWorker /\ parallelism >= 1 /\ Returned) =>
        /\ prod.pc = "done" /\ ~(prod.i < high) /\ chinClosed
        /\ DOMAIN wk = 0..(parallelism - 1)
        /\ \A w \in DOMAIN wk : wk[w].pc = "done"
        /\ wg = 0
        /\ choutClosed /\ closer = "done"
        /\ started = parallelism + 2

C16_Witness ==
    /\ fn = "ForN" /\ ValidRange /\ ValidWorker /\ Returned
    /\ parallelism = 3 /\ NumUnits = 3 /\ Cardinality(fails) = 1
    /\ \A w \in DOMAIN wk : wk[w].pc = "done"

(* C17: in Do and RangeMap every store into the result slice is made by    *)
(* the goroutine started for that slot and no slot is stored twice; when   *)
(* the call has returned, having read the slice, every goroutine has       *)
(* signalled completion and the stores made are exactly those the          *)
(* goroutines had to make.                                                 *)
C17_SlotsPartitioned ==
    (\/ fn = "Do" /\ ValidFunctions
     \/ fn = "RangeMap" /\ m.kind = "Map") =>
        /\ \A x \in BagToSet(writes) :
              /\ x[1] = x[2]
              /\ x[1] \in DOMAIN errsDo
              /\ CopiesIn(x, writes) = 1
        /\ Returned =>
             /\ fn = "Do" =>
                  /\ \A k \in DOMAIN gor : gor[k] = "done"
                  /\ BagToSet(writes) = { <<k, k>> : k \in fails }
             /\ fn = "RangeMap" =>
                  /\ \A i \in DOMAIN gor : gor[i].pc = "done"
                  /\ BagToSet(writes) = { <<i, i>> : i \in DOMAIN errsDo }

C17_Witness ==
    /\ fn = "Do" /\ ValidFunctions /\ Returned
    /\ Len(functions) = 3 /\ fails = {1, 2}
    /\ BagCardinality(writes) = 2

(* C18: in a For call with low <= high and step >= 1 the number of tokens  *)
(* buffered in sem never exceeds high - low and a goroutine that reaches   *)
(* sem <- 1 can always execute it at once, so it does not block; and a     *)
(* goroutine waiting for the mutex eventually gets it.                     *)
C18_SemNeverBlocks ==
    /\ [](  (fn = "For" /\ ValidRange /\ ValidWorker) =>
               /\ sem <= high - low
               /\ \A u \in DOMAIN gor :
                     gor[u] \in {"sem", "semLocked"} => ENABLED ForSem(u) )
    /\ \A u \in 0..MaxHigh :
          (fn = "For" /\ u \in DOMAIN gor /\ gor[u] = "lock")
             ~> ~(fn = "For" /\ u \in DOMAIN gor /\ gor[u] = "lock")

C18_Witness ==
    /\ fn = "For" /\ ValidRange /\ ValidWorker
    /\ step = 1 /\ high - low = 3
    /\ Cardinality(fails) >= 2
    /\ sem = high - low

(* C19 as stated: when a valid ForN call with parallelism >= 1 has         *)
(* returned, the collector has received exactly one report for every unit  *)
(* of the range.                                                           *)
C19_OneReportPerUnit ==
    (fn = "ForN" /\ ValidRange /\ ValidWorker /\ parallelism >= 1 /\ Returned) =>
        reported = SetToBag(UnitSet)

(* C19, amended: only units whose invocation returned a non-nil error are  *)
(* reported on chout and none is reported twice; when ForN has returned,   *)
(* the collector has received exactly one report for each such unit.       *)
C19_OneReportPerFailedUnit ==
    (fn = "ForN" /\ ValidRange /\ ValidWorker) =>
        /\ \A u \in BagToSet(reported) : u \in Failed /\ CopiesIn(u, reported) = 1
        /\ Returned => BagToSet(reported) = Failed

C19_Witness ==
    /\ fn = "ForN" /\ ValidRange /\ ValidWorker /\ Returned
    /\ parallelism = 2 /\ NumUnits = 3
    /\ Cardinality(fails) = 1
    /\ reported = SetToBag(fails)

(* C20: in a ForN call with a valid range, a valid worker and              *)
(* parallelism >= 1, chin is closed at most once, by the producer after    *)
(* its last send; chout is closed at most once and only when all           *)
(* parallelism workers have exited; nobody is sending on a closed channel; *)
(* and the caller has stopped receiving only if chout is closed, both      *)
(* channels have been closed exactly once and every error a worker had to  *)
(* send has been received.                                                 *)
C20_ChannelsClosedSafely ==
    (fn = "ForN" /\ ValidRange /\ ValidWorker /\ parallelism >= 1) =>
        /\ chinCloses = (IF chinClosed THEN 1 ELSE 0)
        /\ chinClosed => (prod.pc = "done" /\ ~(prod.i < high))
        /\ prod.pc = "send" => ~chinClosed
        /\ choutCloses = (IF choutClosed THEN 1 ELSE 0)
        /\ choutClosed =>
             /\ closer = "done"
             /\ DOMAIN wk = 0..(parallelism - 1)
             /\ \A w \in DOMAIN wk : wk[w].pc = "done"
        /\ \A w \in DOMAIN wk : wk[w].pc = "sendErr" => ~choutClosed
        /\ mainpc = "done" =>
             /\ chinCloses = 1 /\ choutCloses = 1
             /\ \A w \in DOMAIN wk : wk[w].pc # "sendErr"
             /\ BagToSet(reported) = { u \in UnitSet : u \in fails }

C20_Witness ==
    /\ fn = "ForN" /\ ValidRange /\ ValidWorker /\ mainpc = "done"
    /\ parallelism = 2 /\ NumUnits = 3 /\ fails = UnitSet
    /\ chinCloses = 1 /\ choutCloses = 1
    /\ BagCardinality(reported) = 3

(* The units of call p, the <-sem its second loop has done, the units of   *)
(* call p whose invocation returns an error, and the text call p collects. *)
NestedUnits(p) == RangeValues(calls[p].low, calls[p].high, calls[p].step)

NestedReceived(p) ==
    IF calls[p].pc = "spawn" THEN 0
    ELSE (calls[p].mi - calls[p].low) \div calls[p].step

NestedFailing(p) ==
    IF p = <<>>
      THEN { i \in NestedUnits(p) :
               \E j \in RangeValues(0, worker.innerHigh, 1) : <<i, j>> \in fails }
      ELSE { j \in NestedUnits(p) : Append(p, j) \in fails }

NestedExpected(p) ==
    IF NestedFailing(p) = {} THEN <<>>
    ELSE IF p = <<>> THEN Msg(0) \o <<NL, NL>>
    ELSE Msg(0) \o <<NL>>

NestedPaths ==
    { <<i>> : i \in RangeValues(low, high, step) } \cup
    { <<i, j>> : i \in RangeValues(low, high, step),
                 j \in RangeValues(0, worker.innerHigh, 1) }

(* C14: when a For worker itself calls For, every call works on its own    *)
(* sem, mutex and errs: the tokens in a call's sem plus those its second   *)
(* loop has received are exactly those its own goroutines have sent, its   *)
(* mutex is held by at most one of its own goroutines, and its errs holds  *)
(* only the error of its own failing unit; a call that has returned has    *)
(* received the token of each of its goroutines, of which only the         *)
(* deferred Unlock may be left; every outer and inner unit is              *)
(* invoked at most once, and exactly once when the outer call has          *)
(* returned; an outer worker returns only when its inner call has returned *)
(* and all of that call's units have; and as long as the outer call has    *)
(* not returned some step is possible, so nothing deadlocks.               *)
C14_NestedCallsSelfContained ==
    fn = "NestedFor" =>
        /\ \A p \in DOMAIN calls :
              LET c == calls[p]
                  sent == { u \in DOMAIN c.gor : c.gor[u] \in {"unlock", "done"} }
                  holders == { u \in DOMAIN c.gor :
                                 c.gor[u] \in {"read", "write", "semLocked", "unlock"} }
                  added == { u \in DOMAIN c.gor :
                               c.gor[u] \in {"semLocked", "unlock", "done"} }
              IN  /\ c.sem <= c.high - c.low
                  /\ c.sem + NestedReceived(p) = Cardinality(sent)
                  /\ Cardinality(holders) <= 1
                  /\ c.mutex <=> (holders # {})
                  /\ c.errs = (IF NestedFailing(p) \cap added = {}
                                 THEN <<>> ELSE NestedExpected(p))
                  /\ c.pc = "done" =>
                        /\ DOMAIN c.gor = NestedUnits(p)
                        /\ \A u \in DOMAIN c.gor : c.gor[u] \in {"unlock", "done"}
                        /\ c.sem = 0
                        /\ c.result = ErrOrNil(NestedExpected(p))
        /\ \A x \in BagToSet(invoked) : x \in NestedPaths /\ CopiesIn(x, invoked) = 1
        /\ \A x \in BagToSet(returned) :
              CopiesIn(x, returned) = 1 /\ CopiesIn(x, invoked) = 1
        /\ \A i \in RangeValues(low, high, step) :
              CopiesIn(<<i>>, returned) = 1 =>
                 /\ calls[<<i>>].pc = "done"
                 /\ \A j \in RangeValues(0, worker.innerHigh, 1) :
                       CopiesIn(<<i, j>>, returned) = 1
        /\ mainpc = "done" =>
              /\ result = ErrOrNil(NestedExpected(<<>>))
              /\ \A x \in NestedPaths :
                    CopiesIn(x, invoked) = 1 /\ CopiesIn(x, returned) = 1
              /\ \A p \in DOMAIN calls : calls[p].pc = "done"
        /\ mainpc # "done" => ENABLED NestedNext

C14_Witness ==
    /\ fn = "NestedFor" /\ mainpc = "done"
    /\ high = 2 /\ worker.innerHigh = 1 /\ fails = {<<0, 0>>}
    /\ BagCardinality(invoked) = 4 /\ BagCardinality(returned) = 4
    /\ result = Err(Msg(0) \o <<NL, NL>>)
    /\ calls[<<0>>].result = Err(Msg(0) \o <<NL>>)
    /\ calls[<<1>>].result = Nil

====
